---- MODULE Spec2Model ----
(***************************************************************************)
(* Model of the inventory management system (inventory_m-sys/main.py):    *)
(* the Product class hierarchy (Electronics, Grocery, Clothing), the      *)
(* Inventory ledger and its JSON persistence.                             *)
(*                                                                         *)
(* Python values are represented as follows.                               *)
(*   - a dict is a sequence of entries [k |-> key, v |-> value] in         *)
(*     insertion order (Python dicts keep insertion order; assigning to    *)
(*     an existing key keeps its position);                                *)
(*   - a Product object is a record with its attributes and its class      *)
(*     name in the field cls;                                              *)
(*   - a datetime is a record [year, month, day, tod], compared field by   *)
(*     field like Python compares datetimes; tod counts the ticks since    *)
(*     midnight, tod = 0 being 00:00:00.000000;                            *)
(*   - a date string "YYYY-MM-DD" is the tuple <<YYYY, MM, DD>> of the     *)
(*     numbers its three fields spell;                                     *)
(*   - a JSON document is a sequence of records (the dicts of the list).   *)
(***************************************************************************)
EXTENDS Integers, Sequences, FiniteSets, TLC

VARIABLES products, now, file, last, snapshot

vars == <<products, now, file, last, snapshot>>

----------------------------------------------------------------------------
(* Bounds of the model *)

\* quantities passed to sell and restock range over MinQty..MaxQty
MaxQty == 1
\* how far below zero the quantities typed at the menu go
MaxNeg == 1
MinQty == 0 - MaxNeg
\* stock levels are kept within MinStock..MaxStock by the guards
MaxStock == 1
MinStock == 0 - MaxNeg
\* number of clock ticks after the start instant
MaxNow == 2
\* longest external document offered to load_from_file
MaxDocLen == 2

\* ticks per calendar day: tod 0 is midnight, tod 1 is later that day
TicksPerDay == 2
Precision == 8

----------------------------------------------------------------------------
(* Outcomes of an operation: the exception it raised, or Ok *)

Ok == "ok"
DuplicateId == "ValueError: Product ID already exists."
NotFound == "ValueError: Product ID not found."
InsufficientStock == "ValueError: Not enough stock to sell."
ExpiredProduct == "ValueError: Cannot sell expired product."
UnknownCategory == "ValueError: Unknown product type"
KeyErrorType == "KeyError: 'type'"
TypeErrorArgs == "TypeError: unexpected or missing keyword argument"
StrptimeError == "ValueError: time data does not match format '%Y-%m-%d'"
FileNotFound == "FileNotFoundError"

----------------------------------------------------------------------------
(* datetime *)

IsLeap(y) == (y % 4 = 0 /\ y % 100 # 0) \/ y % 400 = 0

DaysInMonth(y, m) ==
    IF m = 2 THEN (IF IsLeap(y) THEN 29 ELSE 28)
    ELSE IF m \in {4, 6, 9, 11} THEN 30 ELSE 31

\* datetime(year, month, day) with the time of day tod
Datetime(y, m, d, t) == [year |-> y, month |-> m, day |-> d, tod |-> t]

\* a > b comparing the day of the month and the time only
DtGreaterDayOnly(a, b) ==
    \/ a.day > b.day
    \/ a.day = b.day /\ a.tod > b.tod

\* a > b on datetimes
DtGreater(a, b) ==
    \/ a.year > b.year
    \/ a.year = b.year /\ a.month > b.month
    \/ a.year = b.year /\ a.month = b.month /\ a.day > b.day
    \/ a.year = b.year /\ a.month = b.month /\ a.day = b.day /\ a.tod > b.tod

\* the date string can be parsed by strptime(s, "%Y-%m-%d")
StrptimeOk(s) ==
    /\ s[1] \in 1..9999
    /\ s[2] \in 1..12
    /\ s[3] \in 1..DaysInMonth(s[1], s[2])

\* datetime.strptime(s, "%Y-%m-%d"): midnight of the day the string names
Strptime(s) == Datetime(s[1], s[2], s[3], 0)

\* dt.strftime("%Y-%d-%m"): day and month in the wrong order
StrftimeDayMonth(dt) == <<dt.year, dt.day, dt.month>>

\* dt.strftime("%Y-%m-%d")
Strftime(dt) == <<dt.year, dt.month, dt.day>>

\* dt.date()
DateOf(dt) == <<dt.year, dt.month, dt.day>>

\* the day after the calendar day <<y, m, d>>
NextDay(s) ==
    IF s[3] < DaysInMonth(s[1], s[2]) THEN <<s[1], s[2], s[3] + 1>>
    ELSE IF s[2] < 12 THEN <<s[1], s[2] + 1, 1>>
    ELSE <<s[1] + 1, 1, 1>>

RECURSIVE AddDays(_, _)
AddDays(s, n) == IF n = 0 THEN s ELSE AddDays(NextDay(s), n - 1)

\* the calendar day on which the clock starts
StartDate == <<2026, 10, 31>>

\* datetime.now() when the clock shows t ticks since midnight of StartDate
DatetimeNow(t) ==
    LET s == AddDays(StartDate, t \div TicksPerDay)
    IN  Datetime(s[1], s[2], s[3], t % TicksPerDay)

----------------------------------------------------------------------------
(* The Product classes *)

Electronics(product_id, name, price, quantity_in_stock, brand, warranty_years) ==
    [cls |-> "Electronics", product_id |-> product_id, name |-> name,
     price |-> price, quantity_in_stock |-> quantity_in_stock,
     brand |-> brand, warranty_years |-> warranty_years]

Grocery(product_id, name, price, quantity_in_stock, expiry_date) ==
    [cls |-> "Grocery", product_id |-> product_id, name |-> name,
     price |-> price, quantity_in_stock |-> quantity_in_stock,
     expiry_date |-> Strptime(expiry_date)]

Clothing(product_id, name, price, quantity_in_stock, size, material) ==
    [cls |-> "Clothing", product_id |-> product_id, name |-> name,
     price |-> price, quantity_in_stock |-> quantity_in_stock,
     size |-> size, material |-> material]

\* Grocery.is_expired at clock reading t
is_expired(p, t) == DtGreater(DatetimeNow(t), p.expiry_date)

\* restock assigning the amount (= for +=)
restockAssign(p, amount) ==
    [p EXCEPT !.quantity_in_stock = amount]

\* restock is the same statement in the three classes
restock(p, amount) ==
    [p EXCEPT !.quantity_in_stock = p.quantity_in_stock + amount]

\* Electronics.sell; the result is the object and the exception raised
ElectronicsSell(p, quantity) ==
    IF quantity > p.quantity_in_stock
    THEN [p |-> p, err |-> InsufficientStock]
    ELSE [p |-> [p EXCEPT !.quantity_in_stock = p.quantity_in_stock - quantity],
          err |-> Ok]

\* Grocery.sell with the stock check ahead of the expiry check
GrocerySellStockFirst(p, quantity, t) ==
    IF quantity > p.quantity_in_stock
    THEN [p |-> p, err |-> InsufficientStock]
    ELSE IF is_expired(p, t)
    THEN [p |-> p, err |-> ExpiredProduct]
    ELSE [p |-> [p EXCEPT !.quantity_in_stock = p.quantity_in_stock - quantity],
          err |-> Ok]

GrocerySell(p, quantity, t) ==
    IF is_expired(p, t)
    THEN [p |-> p, err |-> ExpiredProduct]
    ELSE IF quantity > p.quantity_in_stock
    THEN [p |-> p, err |-> InsufficientStock]
    ELSE [p |-> [p EXCEPT !.quantity_in_stock = p.quantity_in_stock - quantity],
          err |-> Ok]

\* Clothing.sell refusing to sell the whole stock (>= for >)
ClothingSellAll(p, quantity) ==
    IF quantity >= p.quantity_in_stock
    THEN [p |-> p, err |-> InsufficientStock]
    ELSE [p |-> [p EXCEPT !.quantity_in_stock = p.quantity_in_stock - quantity],
          err |-> Ok]

ClothingSell(p, quantity) ==
    IF quantity > p.quantity_in_stock
    THEN [p |-> p, err |-> InsufficientStock]
    ELSE [p |-> [p EXCEPT !.quantity_in_stock = p.quantity_in_stock - quantity],
          err |-> Ok]

\* p.sell(quantity): dispatch on the class of p
sell(p, quantity, t) ==
    IF p.cls = "Electronics" THEN ElectronicsSell(p, quantity)
    ELSE IF p.cls = "Grocery" THEN GrocerySell(p, quantity, t)
    ELSE ClothingSell(p, quantity)

\* Product.to_dict and its overrides
to_dict(p) ==
    LET data == [type |-> p.cls, product_id |-> p.product_id, name |-> p.name,
                 price |-> p.price, quantity_in_stock |-> p.quantity_in_stock]
    IN  IF p.cls = "Electronics"
        THEN [type |-> data.type, product_id |-> data.product_id,
              name |-> data.name, price |-> data.price,
              quantity_in_stock |-> data.quantity_in_stock,
              brand |-> p.brand, warranty_years |-> p.warranty_years]
        ELSE IF p.cls = "Grocery"
        THEN [type |-> data.type, product_id |-> data.product_id,
              name |-> data.name, price |-> data.price,
              quantity_in_stock |-> data.quantity_in_stock,
              expiry_date |-> Strftime(p.expiry_date)]
        ELSE [type |-> data.type, product_id |-> data.product_id,
              name |-> data.name, price |-> data.price,
              quantity_in_stock |-> data.quantity_in_stock,
              size |-> p.size, material |-> p.material]

----------------------------------------------------------------------------
(* dict operations on Inventory._products *)

Keys(d) == {d[i].k : i \in 1..Len(d)}

\* d[key]
Get(d, key) == d[CHOOSE i \in 1..Len(d) : d[i].k = key].v

\* d[key] = value done as a removal followed by an insertion: an existing
\* key moves to the end
DictSetMoveToEnd(d, key, value) ==
    Append(SelectSeq(d, LAMBDA e : e.k # key), [k |-> key, v |-> value])

\* d[key] = value
DictSet(d, key, value) ==
    IF key \in Keys(d)
    THEN [i \in 1..Len(d) |-> IF d[i].k = key THEN [k |-> key, v |-> value]
                                               ELSE d[i]]
    ELSE Append(d, [k |-> key, v |-> value])

\* del d[key]
DictDel(d, key) == SelectSeq(d, LAMBDA e : e.k # key)

----------------------------------------------------------------------------
(* Inventory: the methods as functions of the dict *)

\* add_product storing the object under its name instead of its id
add_productByName(d, product) ==
    IF product.product_id \in Keys(d)
    THEN [products |-> d, err |-> DuplicateId]
    ELSE [products |-> DictSet(d, product.name, product), err |-> Ok]

\* add_product without the membership test: the new object replaces the old
add_productOverwrite(d, product) ==
    [products |-> DictSet(d, product.product_id, product),
     err |-> IF product.product_id \in Keys(d) THEN DuplicateId ELSE Ok]

add_product(d, product) ==
    IF product.product_id \in Keys(d)
    THEN [products |-> d, err |-> DuplicateId]
    ELSE [products |-> DictSet(d, product.product_id, product), err |-> Ok]

\* remove_product emptying the dict instead of deleting one key
remove_productClear(d, product_id) ==
    IF product_id \in Keys(d)
    THEN [products |-> <<>>, err |-> Ok]
    ELSE [products |-> d, err |-> NotFound]

remove_product(d, product_id) ==
    IF product_id \in Keys(d)
    THEN [products |-> DictDel(d, product_id), err |-> Ok]
    ELSE [products |-> d, err |-> NotFound]

sell_product(d, product_id, quantity, t) ==
    IF product_id \notin Keys(d)
    THEN [products |-> d, err |-> NotFound]
    ELSE LET r == sell(Get(d, product_id), quantity, t)
         IN  [products |-> DictSet(d, product_id, r.p), err |-> r.err]

\* restock_product ignoring an unknown id instead of raising
restock_productSilent(d, product_id, quantity) ==
    IF product_id \notin Keys(d)
    THEN [products |-> d, err |-> Ok]
    ELSE [products |-> DictSet(d, product_id, restock(Get(d, product_id), quantity)),
          err |-> Ok]

restock_product(d, product_id, quantity) ==
    IF product_id \notin Keys(d)
    THEN [products |-> d, err |-> NotFound]
    ELSE [products |-> DictSet(d, product_id, restock(Get(d, product_id), quantity)),
          err |-> Ok]

\* the number of bits of n >= 0
RECURSIVE BitLength(_)
BitLength(n) == IF n = 0 THEN 0 ELSE 1 + BitLength(n \div 2)

\* the float nearest to the number n: a significand of Precision bits,
\* ties to the even significand (Python's float keeps 53 bits; the model
\* keeps Precision bits and the prices are whole numbers)
FloatRound(n) ==
    LET a == IF n < 0 THEN 0 - n ELSE n
        sh == BitLength(a) - Precision
        unit == 2 ^ sh
        q == a \div unit
        r == a % unit
        up == r * 2 > unit \/ (r * 2 = unit /\ q % 2 = 1)
        m == (IF up THEN q + 1 ELSE q) * unit
    IN IF sh <= 0 THEN n ELSE IF n < 0 THEN 0 - m ELSE m

FloatMul(a, b) == FloatRound(a * b)

FloatAdd(a, b) == FloatRound(a + b)

get_total_value(p) == FloatMul(p.price, p.quantity_in_stock)

\* sum(p.get_total_value() for p in values): from 0, left to right
total_inventory_value(d) ==
    LET acc[i \in 0..Len(d)] ==
            IF i = 0 THEN 0
            ELSE FloatAdd(acc[i - 1], get_total_value(d[i].v))
    IN acc[Len(d)]

\* str.lower on the names of the model
Lower(str) ==
    CASE str = "Milk" -> "milk"
      [] str = "MILK" -> "milk"
      [] str = "Mil" -> "mil"
      [] str = "Phone" -> "phone"
      [] str = "Shirt" -> "shirt"
      [] OTHER -> str

\* search_by_name comparing the names as they are spelled
search_by_nameExact(d, name) ==
    LET out[i \in 0..Len(d)] ==
            IF i = 0 THEN <<>>
            ELSE IF d[i].v.name = name THEN Append(out[i - 1], d[i].v)
            ELSE out[i - 1]
    IN out[Len(d)]

\* [p for p in values if p._name.lower() == name.lower()]
search_by_name(d, name) ==
    LET out[i \in 0..Len(d)] ==
            IF i = 0 THEN <<>>
            ELSE IF Lower(d[i].v.name) = Lower(name) THEN Append(out[i - 1], d[i].v)
            ELSE out[i - 1]
    IN out[Len(d)]

\* to_remove without the is_expired test: every Grocery is collected
to_removeAnyGrocery(d, t) ==
    {d[i].k : i \in {j \in 1..Len(d) : d[j].v.cls = "Grocery"}}

\* the ids remove_expired_products collects
to_remove(d, t) ==
    {d[i].k : i \in {j \in 1..Len(d) : d[j].v.cls = "Grocery" /\ is_expired(d[j].v, t)}}

remove_expired_products(d, t) ==
    SelectSeq(d, LAMBDA e : e.k \notin to_remove(d, t))

\* the list save_to_file dumps
save_to_file(d) == [i \in 1..Len(d) |-> to_dict(d[i].v)]

ElectronicsArgs == {"product_id", "name", "price", "quantity_in_stock",
                    "brand", "warranty_years"}
GroceryArgs == {"product_id", "name", "price", "quantity_in_stock", "expiry_date"}
ClothingArgs == {"product_id", "name", "price", "quantity_in_stock",
                 "size", "material"}

\* the loop body reading the tag with item.get("type"): a dict without a
\* tag falls through to the last branch
LoadItemGetType(item) ==
    IF "type" \notin DOMAIN item THEN [err |-> UnknownCategory]
    ELSE LET args == DOMAIN item \ {"type"}
         IN  IF item.type = "Electronics"
             THEN IF args # ElectronicsArgs THEN [err |-> TypeErrorArgs]
                  ELSE [err |-> Ok,
                        product |-> Electronics(item.product_id, item.name,
                                       item.price, item.quantity_in_stock,
                                       item.brand, item.warranty_years)]
             ELSE IF item.type = "Grocery"
             THEN IF args # GroceryArgs THEN [err |-> TypeErrorArgs]
                  ELSE IF ~StrptimeOk(item.expiry_date) THEN [err |-> StrptimeError]
                  ELSE [err |-> Ok,
                        product |-> Grocery(item.product_id, item.name,
                                       item.price, item.quantity_in_stock,
                                       item.expiry_date)]
             ELSE IF item.type = "Clothing"
             THEN IF args # ClothingArgs THEN [err |-> TypeErrorArgs]
                  ELSE [err |-> Ok,
                        product |-> Clothing(item.product_id, item.name,
                                       item.price, item.quantity_in_stock,
                                       item.size, item.material)]
             ELSE [err |-> UnknownCategory]

\* one pass of the loop of load_from_file over item: the product built, or
\* the exception raised
LoadItem(item) ==
    IF "type" \notin DOMAIN item THEN [err |-> KeyErrorType]
    ELSE LET args == DOMAIN item \ {"type"}
         IN  IF item.type = "Electronics"
             THEN IF args # ElectronicsArgs THEN [err |-> TypeErrorArgs]
                  ELSE [err |-> Ok,
                        product |-> Electronics(item.product_id, item.name,
                                       item.price, item.quantity_in_stock,
                                       item.brand, item.warranty_years)]
             ELSE IF item.type = "Grocery"
             THEN IF args # GroceryArgs THEN [err |-> TypeErrorArgs]
                  ELSE IF ~StrptimeOk(item.expiry_date) THEN [err |-> StrptimeError]
                  ELSE [err |-> Ok,
                        product |-> Grocery(item.product_id, item.name,
                                       item.price, item.quantity_in_stock,
                                       item.expiry_date)]
             ELSE IF item.type = "Clothing"
             THEN IF args # ClothingArgs THEN [err |-> TypeErrorArgs]
                  ELSE [err |-> Ok,
                        product |-> Clothing(item.product_id, item.name,
                                       item.price, item.quantity_in_stock,
                                       item.size, item.material)]
             ELSE [err |-> UnknownCategory]

\* the loop storing each product with add_product: a second record with an
\* id already loaded raises
RECURSIVE LoadItemsNoDup(_, _, _)
LoadItemsNoDup(d, data, i) ==
    IF i > Len(data) THEN [products |-> d, err |-> Ok]
    ELSE LET r == LoadItem(data[i])
         IN  IF r.err # Ok THEN [products |-> d, err |-> r.err]
             ELSE IF r.product.product_id \in Keys(d)
             THEN [products |-> d, err |-> DuplicateId]
             ELSE LoadItemsNoDup(DictSet(d, r.product.product_id, r.product),
                                 data, i + 1)

\* the loop of load_from_file from item i on, d being the dict so far
RECURSIVE LoadItems(_, _, _)
LoadItems(d, data, i) ==
    IF i > Len(data) THEN [products |-> d, err |-> Ok]
    ELSE LET r == LoadItem(data[i])
         IN  IF r.err # Ok THEN [products |-> d, err |-> r.err]
             ELSE LoadItems(DictSet(d, r.product.product_id, r.product), data, i + 1)

\* load_from_file without the clear(): the records are merged into the dict
load_from_fileMerge(d, data) == LoadItems(d, data, 1)

\* load_from_file on a file holding data: the dict is cleared, then filled
load_from_file(d, data) == LoadItems(<<>>, data, 1)

----------------------------------------------------------------------------
(* Inputs *)

Ids == {"P1", "P2"}

\* quantities typed at the menu: int(input()) accepts zero and negatives
Quantities == MinQty..MaxQty

\* stock levels typed at the menu when a product is added
Stocks == MinStock..MaxStock

\* expiry dates typed at the menu: the start day and the day after it
ExpiryDates == {StartDate, NextDay(StartDate)}

\* names typed at the menu for a search
SearchNames == {"milk", "MILK", "Mil", "Shirt"}

\* the products the menu can construct
NewProducts ==
    {Electronics(id, "Phone", 500, q, "Acme", 2) : id \in Ids, q \in Stocks}
    \cup {Grocery(id, "Milk", 2, q, e) : id \in Ids, q \in Stocks, e \in ExpiryDates}
    \cup {Clothing(id, "Shirt", 25, q, "M", "Cotton") : id \in Ids, q \in Stocks}

\* the dicts of the documents found in files the program did not write
DocItems ==
    { to_dict(Electronics("P1", "Phone", 500, 1, "Acme", 2)),
      to_dict(Grocery("P2", "Milk", 2, 1, NextDay(StartDate))),
      to_dict(Clothing("P1", "Shirt", 25, MinStock, "M", "Cotton")),
      [type |-> "Toy", product_id |-> "P2", name |-> "Shirt", price |-> 25,
       quantity_in_stock |-> 1],
      [product_id |-> "P2", name |-> "Shirt", price |-> 25,
       quantity_in_stock |-> 1, size |-> "M", material |-> "Cotton"],
      [type |-> "Electronics", product_id |-> "P2", name |-> "Phone",
       price |-> 500, quantity_in_stock |-> 1, warranty_years |-> 2],
      [type |-> "Grocery", product_id |-> "P2", name |-> "Milk", price |-> 2,
       quantity_in_stock |-> 1, expiry_date |-> <<2026, 11, 31>>] }

RECURSIVE SeqsUpTo(_, _)
SeqsUpTo(S, n) ==
    IF n = 0 THEN {<<>>}
    ELSE LET shorter == SeqsUpTo(S, n - 1)
         IN  shorter \cup {Append(q, x) : q \in shorter, x \in S}

Docs == SeqsUpTo(DocItems, MaxDocLen)

\* the file save_to_file writes, and a file written by something else
SaveName == "data.json"
OtherName == "other.json"

\* a file: absent, or holding the list json.load returns
NoFile == [name |-> SaveName, exists |-> FALSE, data |-> <<>>]
FileOf(name, data) == [name |-> name, exists |-> TRUE, data |-> data]

----------------------------------------------------------------------------
(* State *)

\* the last operation run, its arguments and the exception it raised; n is
\* the number of ids remove_expired_products collected in to_remove or the
\* value total_inventory_value returned, data the list json.load returned
\* to load_from_file, and found the list search_by_name returned
Op(op, id, qty, err) ==
    [op |-> op, id |-> id, qty |-> qty, err |-> err, n |-> 0, data |-> <<>>,
     found |-> <<>>]

NoSnapshot == [valid |-> FALSE, id |-> "", products |-> <<>>]

InStock(q) == q \in MinStock..MaxStock

StocksBounded(d) == \A i \in 1..Len(d) : InStock(d[i].v.quantity_in_stock)

Init ==
    /\ products = <<>>
    /\ now = 0
    /\ file = NoFile
    /\ last = Op("init", "", 0, Ok)
    /\ snapshot = NoSnapshot

\* choice 1
AddProduct(p) ==
    LET r == add_product(products, p)
    IN  /\ products' = r.products
        /\ last' = Op("add", p.product_id, p.quantity_in_stock, r.err)
        /\ snapshot' = IF r.err = Ok
                       THEN [valid |-> TRUE, id |-> p.product_id, products |-> products]
                       ELSE NoSnapshot
        /\ UNCHANGED <<now, file>>

\* Inventory.remove_product
RemoveProduct(id) ==
    LET r == remove_product(products, id)
    IN  /\ products' = r.products
        /\ last' = Op("remove", id, 0, r.err)
        /\ snapshot' = IF last.op = "add" /\ last.err = Ok /\ r.err = Ok
                       THEN snapshot ELSE NoSnapshot
        /\ UNCHANGED <<now, file>>

\* choice 2
SellProduct(id, q) ==
    LET r == sell_product(products, id, q, now)
    IN  /\ StocksBounded(r.products)
        /\ products' = r.products
        /\ last' = Op("sell", id, q, r.err)
        /\ snapshot' = NoSnapshot
        /\ UNCHANGED <<now, file>>

\* choice 3
RestockProduct(id, q) ==
    LET r == restock_product(products, id, q)
    IN  /\ StocksBounded(r.products)
        /\ products' = r.products
        /\ last' = Op("restock", id, q, r.err)
        /\ snapshot' = NoSnapshot
        /\ UNCHANGED <<now, file>>

\* choice 7
RemoveExpiredProducts ==
    /\ products' = remove_expired_products(products, now)
    /\ last' = [Op("sweep", "", 0, Ok) EXCEPT !.n = Cardinality(to_remove(products, now))]
    /\ snapshot' = NoSnapshot
    /\ UNCHANGED <<now, file>>

\* choice 9
SaveToFile ==
    /\ file' = FileOf(SaveName, save_to_file(products))
    /\ last' = Op("save", "", 0, Ok)
    /\ snapshot' = NoSnapshot
    /\ UNCHANGED <<products, now>>

\* choice 10, on the file the program saved or on a file written elsewhere
LoadFromFile(f) ==
    /\ IF ~f.exists
       THEN /\ products' = products
            /\ last' = Op("load", f.name, 0, FileNotFound)
       ELSE LET r == load_from_file(products, f.data)
            IN  /\ products' = r.products
                /\ last' = [Op("load", f.name, 0, r.err) EXCEPT !.data = f.data]
    /\ snapshot' = NoSnapshot
    /\ UNCHANGED <<now, file>>

\* choice 8
TotalInventoryValue ==
    /\ last' = [Op("total", "", 0, Ok) EXCEPT !.n = total_inventory_value(products)]
    /\ snapshot' = NoSnapshot
    /\ UNCHANGED <<products, now, file>>

\* choice 5
SearchByName(name) ==
    /\ last' = [Op("search", name, 0, Ok) EXCEPT !.found = search_by_name(products, name)]
    /\ snapshot' = NoSnapshot
    /\ UNCHANGED <<products, now, file>>

\* time passes
Tick ==
    /\ now < MaxNow
    /\ now' = now + 1
    /\ last' = Op("tick", "", 0, Ok)
    /\ snapshot' = NoSnapshot
    /\ UNCHANGED <<products, file>>

\* the ledger operations of the menu, on every input, and the clock
Next ==
    \/ \E p \in NewProducts : AddProduct(p)
    \/ \E id \in Ids : RemoveProduct(id)
    \/ \E id \in Ids, q \in Quantities : SellProduct(id, q)
    \/ \E id \in Ids, q \in Quantities : RestockProduct(id, q)
    \/ RemoveExpiredProducts
    \/ \E name \in SearchNames : SearchByName(name)
    \/ TotalInventoryValue
    \/ Tick

Spec == Init /\ [][Next]_vars

----------------------------------------------------------------------------
(* The persistence operations: the catalog is built by add, remove and     *)
(* load from a few products of every class, saved, and loaded again from   *)
(* the saved file or from a file written elsewhere.                        *)

PersistProducts ==
    { Electronics("P1", "Phone", 500, 1, "Acme", 2),
      Grocery("P1", "Milk", 2, 0, StartDate),
      Grocery("P2", "Milk", 2, MinStock, NextDay(StartDate)),
      Clothing("P2", "Shirt", 25, 0, "M", "Cotton") }

NextPersist ==
    \/ \E p \in PersistProducts : AddProduct(p)
    \/ \E id \in Ids : RemoveProduct(id)
    \/ SaveToFile
    \/ \E f \in {file} \cup {FileOf(OtherName, d) : d \in Docs} : LoadFromFile(f)

SpecPersist == Init /\ [][NextPersist]_vars

----------------------------------------------------------------------------
(* Properties *)

\* the record stored under id in the catalog d
Rec(d, id) == Get(d, id)

\* the Grocery records of d that is_expired reports expired at clock t
ExpiredIds(d, t) ==
    {id \in Keys(d) : Rec(d, id).cls = "Grocery" /\ is_expired(Rec(d, id), t)}

\* C1: a load that fails on a record of the document leaves the catalog as
\* it was before the load.
C1_FailedLoadKeepsCatalog ==
    [][(last'.op = "load" /\ last'.err # Ok) => products' = products]_vars

\* C2: every record of the catalog has quantity_in_stock >= 0 in every
\* reachable state.
C2_StockNonNegative ==
    \A i \in 1..Len(products) : products[i].v.quantity_in_stock >= 0

\* C3: sell on a record of the catalog that is not an expired Grocery
\* succeeds and subtracts q when q <= stock, and fails with InsufficientStock
\* leaving the stock unchanged when q > stock.
C3_SellStock ==
    [][(last'.op = "sell" /\ last'.id \in Keys(products)
          /\ last'.id \notin ExpiredIds(products, now))
       => LET p == Rec(products, last'.id)
              q == last'.qty
          IN  /\ last'.id \in Keys(products')
              /\ IF q <= p.quantity_in_stock
                 THEN /\ last'.err = Ok
                      /\ Rec(products', last'.id).quantity_in_stock
                           = p.quantity_in_stock - q
                 ELSE /\ last'.err = InsufficientStock
                      /\ Rec(products', last'.id).quantity_in_stock
                           = p.quantity_in_stock]_vars

C3_Witness ==
    /\ last.op = "sell" /\ last.err = Ok /\ last.qty = 1
    /\ last.id \in Keys(products)
    /\ Rec(products, last.id).cls = "Clothing"
    /\ Rec(products, last.id).quantity_in_stock = 0

\* C4: sell on an expired Grocery fails with ExpiredProduct whatever the
\* quantity, at most the stock or above it, and changes nothing.
C4_ExpiredSellFails ==
    [][(last'.op = "sell" /\ last'.id \in ExpiredIds(products, now))
       => (last'.err = ExpiredProduct /\ products' = products)]_vars

C4_Witness ==
    /\ last.op = "sell" /\ last.err = ExpiredProduct
    /\ last.id \in Keys(products)
    /\ last.qty > Rec(products, last.id).quantity_in_stock

\* C5: add with an id already in the catalog fails with DuplicateId and
\* leaves the catalog unchanged.
C5_DuplicateAdd ==
    [][(last'.op = "add" /\ last'.id \in Keys(products))
       => (last'.err = DuplicateId /\ products' = products)]_vars

C5_Witness ==
    /\ last.op = "add" /\ last.err = DuplicateId
    /\ Len(products) = 2
    /\ Rec(products, last.id).quantity_in_stock # last.qty

\* C6: add(r) with a fresh id followed by remove(r.id) yields the catalog
\* that add(r) started from.
C6_AddThenRemove ==
    (last.op = "remove" /\ last.err = Ok /\ snapshot.valid /\ snapshot.id = last.id)
    => products = snapshot.products

C6_Witness ==
    /\ last.op = "remove" /\ last.err = Ok
    /\ snapshot.valid /\ snapshot.id = last.id
    /\ Len(products) = 1

\* C7: load of the file that save has just written rebuilds the catalog:
\* same ids in the same order, same classes, same attribute values.
C7_RoundTrip ==
    [][(last.op = "save" /\ last'.op = "load" /\ last'.id = SaveName)
       => (last'.err = Ok /\ products' = products)]_vars

C7_Witness ==
    /\ last.op = "load" /\ last.err = Ok /\ last.id = SaveName
    /\ file = FileOf(SaveName, save_to_file(products))
    /\ Len(products) = 2
    /\ products[1].v.cls = "Grocery"
    /\ products[1].v.product_id = "P2"

\* C8: remove_expired_products removes exactly the expired Grocery records
\* and leaves every other record in place and unchanged.
C8_SweepExact ==
    [][last'.op = "sweep"
       => /\ Keys(products') = Keys(products) \ ExpiredIds(products, now)
          /\ \A id \in Keys(products') : Rec(products', id) = Rec(products, id)]_vars

C8_Witness ==
    /\ last.op = "sweep" /\ last.n = 1
    /\ Len(products) = 1
    /\ products[1].v.cls = "Grocery"

\* the calendar date a is later than the calendar date b
DateLater(a, b) ==
    \/ a[1] > b[1]
    \/ a[1] = b[1] /\ a[2] > b[2]
    \/ a[1] = b[1] /\ a[2] = b[2] /\ a[3] > b[3]

\* C9: a Grocery is expired exactly when the current calendar date is later
\* than its expiry date.
C9_ExpiredIffDateLater ==
    \A i \in 1..Len(products) :
        products[i].v.cls = "Grocery"
        => (is_expired(products[i].v, now)
              <=> DateLater(DateOf(DatetimeNow(now)), DateOf(products[i].v.expiry_date)))

\* C10: remove, sell and restock with an id that is not in the catalog fail
\* with NotFound and leave the catalog unchanged.
C10_AbsentId ==
    [][(last'.op \in {"remove", "sell", "restock"} /\ last'.id \notin Keys(products))
       => (last'.err = NotFound /\ products' = products)]_vars

C10_Witness ==
    /\ last.op = "restock" /\ last.err = NotFound
    /\ Len(products) = 1

\* the type tags load_from_file knows
KnownTypes == {"Electronics", "Grocery", "Clothing"}

\* the fields the document format requires of a record with the tag type
RequiredFields(type) ==
    {"type", "product_id", "name", "price", "quantity_in_stock"}
    \cup (IF type = "Electronics" THEN {"brand", "warranty_years"}
          ELSE IF type = "Grocery" THEN {"expiry_date"}
          ELSE {"size", "material"})

UnknownTag(item) == "type" \in DOMAIN item /\ item.type \notin KnownTypes

MissingField(item) ==
    \/ "type" \notin DOMAIN item
    \/ item.type \in KnownTypes /\ ~(RequiredFields(item.type) \subseteq DOMAIN item)

BadDate(item) ==
    /\ "type" \in DOMAIN item /\ item.type = "Grocery"
    /\ RequiredFields("Grocery") \subseteq DOMAIN item
    /\ ~StrptimeOk(item.expiry_date)

\* the failures of the code that stand for the kind MalformedField
MalformedField == {KeyErrorType, TypeErrorArgs, StrptimeError}

\* the kinds of the taxonomy other than MalformedField
OtherKinds ==
    {DuplicateId, NotFound, InsufficientStock, ExpiredProduct, UnknownCategory,
     FileNotFound}

\* the records of data load_from_file cannot build
BadRecords(data) ==
    {i \in 1..Len(data) : UnknownTag(data[i]) \/ MissingField(data[i]) \/ BadDate(data[i])}

\* C11: load fails with UnknownCategory on a record with an unknown type tag
\* and with a failure of the MalformedField kind, which is none of the other
\* kinds, on a record with a missing field (the tag included) or with an
\* unparseable expiry_date.
C11_LoadFailureKinds ==
    (last.op = "load" /\ last.err # FileNotFound /\ BadRecords(last.data) # {})
    => LET i == CHOOSE j \in BadRecords(last.data) :
                    \A k \in BadRecords(last.data) : j <= k
       IN  IF UnknownTag(last.data[i])
           THEN last.err = UnknownCategory
           ELSE last.err \in MalformedField \ OtherKinds

C11_Witness ==
    /\ last.op = "load" /\ last.err = KeyErrorType
    /\ Len(last.data) = 2
    /\ Len(products) = 1

\* the product_ids of the records of the document data
DocIds(data) == {data[i].product_id : i \in 1..Len(data)}

\* the last record of data that carries the id
LastWithId(data, id) ==
    data[CHOOSE i \in 1..Len(data) :
            /\ data[i].product_id = id
            /\ \A j \in (i + 1)..Len(data) : data[j].product_id # id]

\* C12: after a successful load the catalog holds exactly the records of the
\* document: its ids, each with field values of the document, and nothing
\* of the catalog before the load that the document does not name.
C12_LoadReplaces ==
    (last.op = "load" /\ last.err = Ok)
    => /\ Keys(products) = DocIds(last.data)
       /\ \A i \in 1..Len(products) :
             \E j \in 1..Len(last.data) :
                /\ last.data[j].product_id = products[i].k
                /\ last.data[j] = to_dict(products[i].v)

C12_Witness ==
    /\ last.op = "load" /\ last.err = Ok /\ last.id = OtherName
    /\ Len(last.data) = 2 /\ Len(products) = 2
    /\ file.exists /\ Len(file.data) = 1
    /\ file.data[1].product_id = "P1" /\ file.data[1].type = "Grocery"

\* some product_id occurs twice in the document data
HasDuplicateIds(data) ==
    \E i, j \in 1..Len(data) : i < j /\ data[i].product_id = data[j].product_id

\* C20: load of a document of buildable records in which an id occurs more
\* than once succeeds; the catalog holds one record for each id, the last of
\* the document, and so fewer records than the document.
C20_LoadDuplicateIds ==
    (last.op = "load" /\ last.err # FileNotFound
       /\ BadRecords(last.data) = {} /\ HasDuplicateIds(last.data))
    => /\ last.err = Ok
       /\ Len(products) < Len(last.data)
       /\ Cardinality(Keys(products)) = Len(products)
       /\ \A i \in 1..Len(products) :
             to_dict(products[i].v) = LastWithId(last.data, products[i].k)

C20_Witness ==
    /\ last.op = "load" /\ last.err = Ok
    /\ Len(last.data) = 2 /\ Len(products) = 1
    /\ last.data[1].type = "Electronics"
    /\ products[1].v.cls = "Clothing"

\* every entry of the catalog is stored under the id of its record, and no
\* two records carry the same id
KeyIsId ==
    /\ \A i \in 1..Len(products) : products[i].k = products[i].v.product_id
    /\ \A i, j \in 1..Len(products) :
          i # j => products[i].v.product_id # products[j].v.product_id

C14_RestockAdds ==
    [][(last'.op = "restock" /\ last'.id \in Keys(products) /\ last'.qty >= 0)
       => /\ last'.err = Ok
          /\ last'.id \in Keys(products')
          /\ Rec(products', last'.id).quantity_in_stock
               = Rec(products, last'.id).quantity_in_stock + last'.qty]_vars

C14_Witness ==
    /\ last.op = "restock" /\ last.err = Ok /\ last.qty = 1
    /\ last.id \in ExpiredIds(products, now)
    /\ Rec(products, last.id).quantity_in_stock = 1

\* C17: a successful sell never raises the stock of its record and a
\* restock never lowers it, whatever integer the menu passes.
C17_SellDownRestockUp ==
    [][(last'.op \in {"sell", "restock"} /\ last'.err = Ok)
       => LET old == Rec(products, last'.id).quantity_in_stock
              new == Rec(products', last'.id).quantity_in_stock
          IN  IF last'.op = "sell" THEN new <= old ELSE new >= old]_vars

\* the record p with its stock set to q
WithStock(p, q) == [p EXCEPT !.quantity_in_stock = q]

\* C18: sell and restock, failed or not, change at most the
\* quantity_in_stock of the record with the id: keys, order, the other
\* records and the other attributes of the record stay as they were.
C18_SellRestockFrame ==
    [][last'.op \in {"sell", "restock"}
       => /\ Len(products') = Len(products)
          /\ \A i \in 1..Len(products) :
                /\ products'[i].k = products[i].k
                /\ IF products[i].k = last'.id
                   THEN WithStock(products'[i].v, 0) = WithStock(products[i].v, 0)
                   ELSE products'[i].v = products[i].v]_vars

C18_Witness ==
    /\ last.op = "sell" /\ last.err = Ok /\ last.qty = 1
    /\ Len(products) = 2
    /\ products[1].k = last.id
    /\ products[1].v.cls = "Electronics"
    /\ products[2].v.cls = "Grocery"

\* C19: the clock only advancing, a Grocery of the catalog that is expired
\* stays expired as long as it is in the catalog, restock included, and a
\* sell succeeds on a Grocery only if it was not expired.
C19_ExpiryPermanent ==
    [][/\ \A i \in 1..Len(products) :
             (/\ products[i].v.cls = "Grocery"
              /\ is_expired(products[i].v, now)
              /\ products[i].k \in Keys(products'))
             => LET p == Rec(products', products[i].k)
                IN  p.cls = "Grocery" /\ is_expired(p, now')
       /\ (last'.op = "sell" /\ last'.err = Ok
             /\ Rec(products, last'.id).cls = "Grocery")
          => ~is_expired(Rec(products, last'.id), now)]_vars

C19_Witness ==
    /\ last.op = "sell" /\ last.err = ExpiredProduct
    /\ now = MaxNow
    /\ last.qty = 1
    /\ Rec(products, last.id).quantity_in_stock = 1
    /\ Rec(products, last.id).expiry_date = Strptime(StartDate)

\* the spellings of one name, letter case apart
Spellings == {{"Milk", "milk", "MILK"}, {"Mil", "mil"}, {"Phone", "phone"},
              {"Shirt", "shirt"}}

SameIgnoringCase(a, b) == \E c \in Spellings : a \in c /\ b \in c

\* the records of the sequence of entries d, in order
Records(d) == [i \in 1..Len(d) |-> d[i].v]

\* C16: search_by_name returns the records whose name is the argument,
\* letter case apart, all of them and no other, in the order of the catalog,
\* and leaves the catalog as it is.
C16_SearchByName ==
    [][last'.op = "search"
       => /\ products' = products
          /\ last'.found
               = SelectSeq(Records(products),
                           LAMBDA p : SameIgnoringCase(p.name, last'.id))]_vars

C16_Witness ==
    /\ last.op = "search" /\ last.id = "MILK"
    /\ Len(products) = 2 /\ Len(last.found) = 2
    /\ last.found[1].product_id = "P2"

\* the sum over the records of d of unitPrice * quantityInStock
SumOfValues(d) ==
    LET sum[i \in 0..Len(d)] ==
            IF i = 0 THEN 0
            ELSE sum[i - 1] + d[i].v.price * d[i].v.quantity_in_stock
    IN sum[Len(d)]

\* every record holds a stock the spec allows: a non-negative integer
StocksNonNegative(d) == \A i \in 1..Len(d) : d[i].v.quantity_in_stock >= 0

====
